---- MODULE Spec2Model ----
(***************************************************************************)
(* Model of main.py: the /scrape endpoint (scrape_products), the crawl     *)
(* loop (WebScraper.scrape_catalog), the bounded retry of a page fetch     *)
(* (WebScraper.scrape_with_retry), the per-item extraction and change      *)
(* filter (WebScraper.parse_product), the Redis price cache (CacheManager) *)
(* and the JSON file store (JSONFileStorage).                              *)
(*                                                                         *)
(* Texts that the code converts (the price text of a page, the string that *)
(* Redis holds) are sequences of one-character strings, so that            *)
(* strip/replace/float()/str() are computed and not assumed.  A float is   *)
(* represented by its value in hundredths (9.99 is 999).  An Optional is   *)
(* <<>> for None and <<v>> for a value v.                                  *)
(***************************************************************************)
EXTENDS Integers, Sequences, FiniteSets, TLC

\* ---------------------------------------------------------------- bounds
\* pages of the catalog that may hold items; every later page is empty
MaxPages == 2
\* items on one page
MaxItems == 2
\* requests served one after the other in a behaviour
MaxRuns == 2

\* ---------------------------------------------------- program constants
MAX_RETRIES == 3

None == <<>>
Some(v) == <<v>>

\* ------------------------------------------------------------ text model
Digits == <<"0", "1", "2", "3", "4", "5", "6", "7", "8", "9">>

IsDigit(c) == \E i \in 1..10 : Digits[i] = c

DigitVal(c) == (CHOOSE i \in 1..10 : Digits[i] = c) - 1

\* str.replace(old, ''): every occurrence of the character is removed
RECURSIVE Remove(_, _)
Remove(s, c) ==
    IF s = <<>> THEN <<>>
    ELSE IF Head(s) = c THEN Remove(Tail(s), c)
    ELSE <<Head(s)>> \o Remove(Tail(s), c)

\* str.strip(): leading and trailing blanks are removed
RECURSIVE LStrip(_)
LStrip(s) == IF s # <<>> /\ Head(s) = " " THEN LStrip(Tail(s)) ELSE s

RECURSIVE RStrip(_)
RStrip(s) ==
    IF s # <<>> /\ s[Len(s)] = " " THEN RStrip(SubSeq(s, 1, Len(s) - 1)) ELSE s

Strip(s) == RStrip(LStrip(s))

\* value of a digit string
RECURSIVE NatOf(_)
NatOf(s) == IF s = <<>> THEN 0 ELSE 10 * NatOf(SubSeq(s, 1, Len(s) - 1)) + DigitVal(s[Len(s)])

AllDigits(s) == \A i \in 1..Len(s) : IsDigit(s[i])

\* position of the first "." of s, or 0
DotAt(s) == IF \E i \in 1..Len(s) : s[i] = "."
            THEN CHOOSE i \in 1..Len(s) : s[i] = "." /\ \A j \in 1..(i - 1) : s[j] # "."
            ELSE 0

\* float(text) for an unsigned decimal: <<value in hundredths>>, or None when
\* float() raises ValueError.  float() itself strips blanks; the texts of the
\* model have at most two decimals.
UFloat(s) ==
    LET d == DotAt(s)
        ip == IF d = 0 THEN s ELSE SubSeq(s, 1, d - 1)
        fp == IF d = 0 THEN <<>> ELSE SubSeq(s, d + 1, Len(s))
    IN  IF AllDigits(ip) /\ AllDigits(fp) /\ Len(ip) + Len(fp) > 0 /\ Len(fp) <= 2
        THEN Some(100 * NatOf(ip)
                  + (IF Len(fp) = 0 THEN 0
                     ELSE IF Len(fp) = 1 THEN 10 * NatOf(fp)
                     ELSE NatOf(fp)))
        ELSE None

ParseFloat(text) ==
    LET s == Strip(text)
    IN  IF s # <<>> /\ Head(s) = "-"
        THEN (IF UFloat(Tail(s)) = None THEN None ELSE Some(0 - UFloat(Tail(s))[1]))
        ELSE IF s # <<>> /\ Head(s) = "+" THEN UFloat(Tail(s))
        ELSE UFloat(s)

\* decimal digits of a natural number
RECURSIVE NatStr(_)
NatStr(n) == IF n < 10 THEN <<Digits[n + 1]>> ELSE NatStr(n \div 10) \o <<Digits[(n % 10) + 1]>>

\* a str() that keeps one decimal only
FloatStrOneDecimal(v) ==
    LET a == IF v < 0 THEN 0 - v ELSE v
    IN  (IF v < 0 THEN <<"-">> ELSE <<>>)
            \o NatStr(a \div 100) \o <<".", Digits[((a % 100) \div 10) + 1]>>

\* str(float): shortest repr, always with a fractional part ("10.0", "9.5", "9.99")
FloatStr(v) ==
    LET a == IF v < 0 THEN 0 - v ELSE v
        f == a % 100
        frac == IF f % 10 = 0 THEN <<Digits[(f \div 10) + 1]>>
                ELSE <<Digits[(f \div 10) + 1], Digits[(f % 10) + 1]>>
    IN  (IF v < 0 THEN <<"-">> ELSE <<>>) \o NatStr(a \div 100) \o <<".">> \o frac


\* ------------------------------------------------------------ the inputs
Titles == {"Widget", "Gadget"}

\* price texts found on a page: "$9.99", "$10" and the unparseable "N/A"
PriceTexts == { <<"$", "9", ".", "9", "9">>, <<"$", "1", "0">>, <<"N", "/", "A">> }

\* one .product-item element: the text of .product-title (already trimmed)
\* and the raw text of .product-price
Items ==
    { [title |-> "Widget", price |-> <<"$", "9", ".", "9", "9">>],
      [title |-> "Widget", price |-> <<"$", "1", "0">>],
      [title |-> "Gadget", price |-> <<"$", "1", "0">>],
      [title |-> "Gadget", price |-> <<"N", "/", "A">>] }

RECURSIVE SeqsUpTo(_, _)
SeqsUpTo(S, n) ==
    IF n = 0 THEN {<<>>}
    ELSE LET shorter == SeqsUpTo(S, n - 1)
         IN  shorter \cup {Append(q, x) : q \in {r \in shorter : Len(r) = n - 1}, x \in S}

Pages == SeqsUpTo(Items, MaxItems)

\* a catalog: the items served for ?page=1 .. ?page=MaxPages
Catalogs == [1..MaxPages -> Pages]

\* the strings a price of the model leaves in Redis: str(float(...))
CacheStrings ==
    {FloatStr(ParseFloat(Remove(Strip(p), "$"))[1]) :
        p \in {q \in PriceTexts : ParseFloat(Remove(Strip(q), "$")) # None}}

\* page_limit: Optional[int]
Limits == {None} \cup {Some(n) : n \in 0..MaxPages}

LowerOf == [t \in Titles |-> IF t = "Widget" THEN "widget" ELSE "gadget"]

\* f"images/{title.lower().replace(' ', '_')}.jpg"
ImagePath(title) == <<"images/", LowerOf[title], ".jpg">>

Product(title, price) ==
    [product_title |-> title, product_price |-> price, path_to_image |-> ImagePath(title)]

\* ------------------------------------------------------------- the state
VARIABLES
    catalog,        \* the site: page number -> items served
    cache,          \* Redis: title -> None | Some(string)
    store,          \* products.json: the list last written
    images,         \* image files written
    notified,       \* notifications emitted, as the counts they report
    pc,             \* position of the request handler
    page_limit,     \* settings.page_limit of the request
    page,           \* scrape_catalog: page
    all_products,   \* scrape_catalog: all_products
    attempt,        \* scrape_with_retry: attempt
    html,           \* the items of the page fetched last
    idx,            \* parse_product: position in soup.select('.product-item')
    products,       \* parse_product: products
    response,       \* what the caller receives
    runs,           \* history: requests started
    visited,        \* history: pages scrape_with_retry was called for in this run
    cache0,         \* history: cache at the start of this run
    store0,         \* history: store at the start of this run
    notified0,      \* history: notifications at the start of this run
    prev,           \* history: summary of the previous run
    everSaved,      \* history: <<title, price>> of every record ever saved
    gets,           \* history: client.get calls of the current scrape_with_retry
    origin,         \* history: <<page, position>> of each item accepted in this run
    fails,          \* history: failed client.get calls of this run (None: not recorded)
    other,          \* the request suspended at an await while this one runs, or None
    audit           \* history: writes of each cache entry, and the entry each
                    \* accepted item was looked up in (None: not recorded)

vars == <<catalog, cache, store, images, notified, pc, page_limit, page, all_products,
          attempt, html, idx, products, response, runs, visited, cache0, store0,
          notified0, prev, everSaved, gets, origin, fails, other, audit>>

\* the items served for a page; pages past the catalog are empty
PageAt(p) == IF p \in DOMAIN catalog THEN catalog[p] ELSE <<>>

\* float(text) and str(price) for the texts and the prices of the model, computed
\* once
TextOf == [item \in Items |-> Remove(Strip(item.price), "$")]

FloatOf == [s \in CacheStrings \cup {TextOf[item] : item \in Items} |-> ParseFloat(s)]

Prices == {FloatOf[TextOf[item]][1] : item \in {i \in Items : FloatOf[TextOf[i]] # None}}

StrOf == [v \in Prices |-> FloatStr(v)]

\* CacheManager.get_cached_price
get_cached_price(c, title) ==
    IF c[title] # None /\ c[title][1] # <<>> THEN FloatOf[c[title][1]] ELSE None

\* a cache whose set is lost
set_cached_price_lost(c, title, price) == c

\* CacheManager.set_cached_price
set_cached_price(c, title, price) == [c EXCEPT ![title] = Some(StrOf[price])]

\* float(....text.strip().replace('$', ''))
PriceOf(item) == FloatOf[TextOf[item]]

\* a filter that accepts unseen titles only
ChangedUnseenOnly(c, title, price) == c[title] = None

\* if cached_price != price
Changed(c, title, price) == get_cached_price(c, title) # Some(price)

\* a limit test without the truthiness test: 0 is a limit like any other
LimitReachedAtZero(limit, p) == limit # None /\ p > limit[1]

\* if settings.page_limit and page > settings.page_limit
LimitReached(limit, p) == limit # None /\ limit[1] # 0 /\ p > limit[1]

Failure(detail) == [status |-> "error", code |-> 500, detail |-> detail]

Success(n) == [status |-> "success", products_processed |-> n]

Init ==
    /\ catalog \in Catalogs
    /\ cache \in [Titles -> {None} \cup {Some(s) : s \in CacheStrings}]
    /\ store = <<>>
    /\ images = {}
    /\ notified = <<>>
    /\ pc = "idle"
    /\ page_limit = None
    /\ page = 1
    /\ all_products = <<>>
    /\ attempt = 0
    /\ html = <<>>
    /\ idx = 1
    /\ products = <<>>
    /\ response = None
    /\ runs = 0
    /\ visited = <<>>
    /\ cache0 = cache
    /\ store0 = store
    /\ notified0 = notified
    /\ prev = None
    /\ everSaved = {}
    /\ gets = 0
    /\ origin = <<>>
    /\ fails = None
    /\ other = None
    /\ audit = None

\* what is kept of a run when the next one starts
Summary ==
    [limit |-> page_limit, outcome |-> pc, count |-> Len(all_products),
     cacheStart |-> cache0]

\* POST /scrape arrives; scrape_catalog starts
StartRun(limit) ==
    /\ pc \in {"idle", "done", "failed"}
    /\ runs < MaxRuns
    /\ page_limit' = limit
    /\ all_products' = <<>>
    /\ page' = 1
    /\ pc' = "loop"
    /\ response' = None
    /\ runs' = runs + 1
    /\ visited' = <<>>
    /\ cache0' = cache
    /\ store0' = store
    /\ notified0' = notified
    /\ prev' = IF pc = "idle" THEN None ELSE Some(Summary)
    /\ attempt' = 0
    /\ html' = <<>>
    /\ idx' = 1
    /\ products' = <<>>
    /\ gets' = 0
    /\ origin' = <<>>
    /\ fails' = IF fails = None THEN None ELSE Some(0)
    /\ audit' = IF audit = None THEN None ELSE [audit EXCEPT !.read = <<>>]
    /\ UNCHANGED <<other, catalog, cache, store, images, notified, everSaved>>

\* top of the while loop: the page limit ends the loop
LimitBreak ==
    /\ pc = "loop"
    /\ LimitReached(page_limit, page)
    /\ pc' = "save"
    /\ UNCHANGED <<audit, other, fails, catalog, cache, store, images, notified, page_limit,
                   page, all_products, attempt, html, idx, products, response, runs,
                   visited, cache0, store0, notified0, prev, everSaved, gets, origin>>

\* a retry budget counted over the whole run
FirstAttemptPerRun(f) == IF f = None THEN 0 ELSE f[1]

\* for attempt in range(MAX_RETRIES): every call starts at 0, whatever failed before
FirstAttempt(f) == 0

\* top of the while loop: scrape_with_retry is called for the page
FetchCall ==
    /\ pc = "loop"
    /\ ~LimitReached(page_limit, page)
    /\ attempt' = FirstAttempt(fails)
    /\ visited' = Append(visited, page)
    /\ gets' = 0
    /\ pc' = "fetch"
    /\ UNCHANGED <<audit, other, fails, catalog, cache, store, images, notified, page_limit,
                   page, all_products, html, idx, products, response, runs, cache0, store0,
                   notified0, prev, everSaved, origin>>

\* client.get succeeds with a 2xx status: scrape_with_retry returns response.text
FetchOk ==
    /\ pc = "fetch"
    /\ html' = PageAt(page)
    /\ gets' = gets + 1
    /\ pc' = "fetched"
    /\ UNCHANGED <<audit, other, fails, catalog, cache, store, images, notified, page_limit,
                   page, all_products, attempt, idx, products, response, runs, visited,
                   cache0, store0, notified0, prev, everSaved, origin>>

\* a retry loop that gives up one attempt early
LastAttemptEarly(a) == a = MAX_RETRIES - 2

\* if attempt == MAX_RETRIES - 1: raise
LastAttempt(a) == a = MAX_RETRIES - 1

\* client.get raises, or raise_for_status raises: retry, or re-raise on the last
\* attempt; the exception then reaches the except clause of scrape_products
FetchFail(kind) ==
    /\ pc = "fetch"
    /\ gets' = gets + 1
    /\ fails' = IF fails = None THEN None ELSE Some(fails[1] + 1)
    /\ IF LastAttempt(attempt)
       THEN /\ pc' = "failed"
            /\ response' = Failure(kind)
       ELSE /\ pc' = "sleep"
            /\ UNCHANGED response
    /\ UNCHANGED <<audit, other, catalog, cache, store, images, notified, page_limit, page,
                   all_products, attempt, html, idx, products, runs, visited, cache0,
                   store0, notified0, prev, everSaved, origin>>

\* a delay that never ends
SleepForever ==
    /\ pc = "sleep"
    /\ UNCHANGED vars

\* asyncio.sleep(RETRY_DELAY) returns; the for loop takes the next attempt
Sleep ==
    /\ pc = "sleep"
    /\ attempt' = attempt + 1
    /\ pc' = "fetch"
    /\ UNCHANGED <<audit, other, fails, catalog, cache, store, images, notified, page_limit,
                   page, all_products, html, idx, products, response, runs, visited, cache0,
                   store0, notified0, prev, everSaved, gets, origin>>

\* parse_product starts on the page returned: products = []
ParseBegin ==
    /\ pc = "fetched"
    /\ products' = <<>>
    /\ idx' = 1
    /\ attempt' = 0
    /\ gets' = 0
    /\ pc' = "item"
    /\ UNCHANGED <<audit, other, fails, catalog, cache, store, images, notified, page_limit,
                   page, all_products, html, response, runs, visited, cache0, store0,
                   notified0, prev, everSaved, origin>>

\* float() raises ValueError on the price text: the run ends in the except clause
ItemRaise ==
    /\ pc = "item"
    /\ idx <= Len(html)
    /\ PriceOf(html[idx]) = None
    /\ pc' = "failed"
    /\ response' = Failure("ValueError")
    /\ UNCHANGED <<audit, other, fails, catalog, cache, store, images, notified, page_limit,
                   page, all_products, attempt, html, idx, products, runs, visited, cache0,
                   store0, notified0, prev, everSaved, gets, origin>>

\* history of an accepted item: the entry of its title is stamped with the number
\* of writes it had when it was looked up; a set of the entry is one more write
Looked(a, title, written) ==
    IF a = None THEN None
    ELSE [a EXCEPT !.read = Append(@, <<page, idx, a.writes[title]>>),
                   !.writes[title] = IF written THEN @ + 1 ELSE @]

\* a filter that leaves the cache as it found it until the image is there
ItemAcceptBeforeSet ==
    /\ pc = "item"
    /\ idx <= Len(html)
    /\ PriceOf(html[idx]) # None
    /\ LET title == html[idx].title
           price == PriceOf(html[idx])[1]
       IN  /\ Changed(cache, title, price)
           /\ products' = Append(products, Product(title, price))
           /\ audit' = Looked(audit, title, FALSE)
    /\ origin' = Append(origin, <<page, idx>>)
    /\ pc' = "download"
    /\ UNCHANGED <<other, fails, catalog, cache, store, images, notified, page_limit, page,
                   all_products, attempt, html, idx, response, runs, visited, cache0,
                   store0, notified0, prev, everSaved, gets>>

\* the price differs from the cached one: append, set the cache, start the download
ItemAccept ==
    /\ pc = "item"
    /\ idx <= Len(html)
    /\ PriceOf(html[idx]) # None
    /\ LET title == html[idx].title
           price == PriceOf(html[idx])[1]
       IN  /\ Changed(cache, title, price)
           /\ products' = Append(products, Product(title, price))
           /\ cache' = set_cached_price(cache, title, price)
           /\ audit' = Looked(audit, title, TRUE)
    /\ origin' = Append(origin, <<page, idx>>)
    /\ pc' = "download"
    /\ UNCHANGED <<other, fails, catalog, store, images, notified, page_limit, page,
                   all_products, attempt, html, idx, response, runs, visited, cache0,
                   store0, notified0, prev, everSaved, gets>>

\* a filter that downloads the image of an unchanged item all the same
ItemRejectDownloads ==
    /\ pc = "item"
    /\ idx <= Len(html)
    /\ PriceOf(html[idx]) # None
    /\ ~Changed(cache, html[idx].title, PriceOf(html[idx])[1])
    /\ pc' = "download"
    /\ UNCHANGED <<audit, other, fails, catalog, cache, store, images, notified, page_limit,
                   page, all_products, attempt, html, idx, products, response, runs,
                   visited, cache0, store0, notified0, prev, everSaved, gets, origin>>

\* the price equals the cached one: the item is passed over
ItemReject ==
    /\ pc = "item"
    /\ idx <= Len(html)
    /\ PriceOf(html[idx]) # None
    /\ ~Changed(cache, html[idx].title, PriceOf(html[idx])[1])
    /\ idx' = idx + 1
    /\ UNCHANGED <<audit, other, fails, catalog, cache, store, images, notified, pc,
                   page_limit, page, all_products, attempt, html, products, response, runs,
                   visited, cache0, store0, notified0, prev, everSaved, gets, origin>>

\* client.get(image_url) returns a response; its status is not looked at (there
\* is no raise_for_status here), so a non-success response goes on to the write
DownloadResponse(status) ==
    /\ pc = "download"
    /\ pc' = IF status = "2xx" THEN "write" ELSE "write_error_body"
    /\ UNCHANGED <<audit, other, fails, catalog, cache, store, images, notified, page_limit,
                   page, all_products, attempt, html, idx, products, response, runs,
                   visited, cache0, store0, notified0, prev, everSaved, gets, origin>>

\* response.content is written to image_path; the loop takes the next item
WriteImage ==
    /\ pc \in {"write", "write_error_body"}
    /\ images' = images \cup {ImagePath(html[idx].title)}
    /\ idx' = idx + 1
    /\ pc' = "item"
    /\ UNCHANGED <<audit, other, fails, catalog, cache, store, notified, page_limit, page,
                   all_products, attempt, html, products, response, runs, visited, cache0,
                   store0, notified0, prev, everSaved, gets, origin>>

\* open() or write() raises: the run ends in the except clause
WriteFail ==
    /\ pc \in {"write", "write_error_body"}
    /\ pc' = "failed"
    /\ response' = Failure("download")
    /\ UNCHANGED <<audit, other, fails, catalog, cache, store, images, notified, page_limit,
                   page, all_products, attempt, html, idx, products, runs, visited, cache0,
                   store0, notified0, prev, everSaved, gets, origin>>

\* an except clause that writes what was accumulated before it reports
DownloadFailKeepsPartial ==
    /\ pc = "download"
    /\ pc' = "failed"
    /\ response' = Failure("download")
    /\ store' = all_products \o products
    /\ UNCHANGED <<audit, other, fails, catalog, cache, images, notified, page_limit, page,
                   all_products, attempt, html, idx, products, runs, visited, cache0,
                   store0, notified0, prev, everSaved, gets, origin>>

\* client.get(image_url) raises: the run ends in the except clause
DownloadFail ==
    /\ pc = "download"
    /\ pc' = "failed"
    /\ response' = Failure("download")
    /\ UNCHANGED <<audit, other, fails, catalog, cache, store, images, notified, page_limit,
                   page, all_products, attempt, html, idx, products, runs, visited, cache0,
                   store0, notified0, prev, everSaved, gets, origin>>

\* a loop that moves on by two pages
ParseReturnSkipsPage ==
    /\ pc = "item"
    /\ idx > Len(html)
    /\ IF products = <<>>
       THEN /\ pc' = "save"
            /\ UNCHANGED <<all_products, page>>
       ELSE /\ all_products' = all_products \o products
            /\ page' = page + 2
            /\ pc' = "loop"
    /\ UNCHANGED <<audit, other, fails, catalog, cache, store, images, notified, page_limit,
                   attempt, html, idx, products, response, runs, visited, cache0, store0,
                   notified0, prev, everSaved, gets, origin>>

\* parse_product returns products; scrape_catalog breaks on an empty list,
\* else extends all_products and moves to the next page
ParseReturn ==
    /\ pc = "item"
    /\ idx > Len(html)
    /\ IF products = <<>>
       THEN /\ pc' = "save"
            /\ UNCHANGED <<all_products, page>>
       ELSE /\ all_products' = all_products \o products
            /\ page' = page + 1
            /\ pc' = "loop"
    /\ UNCHANGED <<audit, other, fails, catalog, cache, store, images, notified, page_limit,
                   attempt, html, idx, products, response, runs, visited, cache0, store0,
                   notified0, prev, everSaved, gets, origin>>

\* a store opened in append mode
save_products_append(list) == store \o list

\* JSONFileStorage.save_products: the file is rewritten with the whole list
save_products(list) == list

RecordsOf(list) == {<<list[i].product_title, list[i].product_price>> : i \in 1..Len(list)}

Save ==
    /\ pc = "save"
    /\ store' = save_products(all_products)
    /\ everSaved' = everSaved \cup RecordsOf(all_products)
    /\ pc' = "notify"
    /\ UNCHANGED <<audit, other, fails, catalog, cache, images, notified, page_limit, page,
                   all_products, attempt, html, idx, products, response, runs, visited,
                   cache0, store0, notified0, prev, gets, origin>>

\* ConsoleNotification.notify logs the message; the success response is returned
Notify ==
    /\ pc = "notify"
    /\ notified' = Append(notified, Len(all_products))
    /\ response' = Success(Len(all_products))
    /\ pc' = "done"
    /\ UNCHANGED <<audit, other, fails, catalog, cache, store, images, page_limit, page,
                   all_products, attempt, html, idx, products, runs, visited, cache0,
                   store0, notified0, prev, everSaved, gets, origin>>

Next ==
    \/ \E limit \in Limits : StartRun(limit)
    \/ LimitBreak
    \/ FetchCall
    \/ FetchOk
    \/ \E kind \in {"network", "status"} : FetchFail(kind)
    \/ Sleep
    \/ ParseBegin
    \/ ItemRaise
    \/ ItemAccept
    \/ ItemReject
    \/ \E status \in {"2xx", "non2xx"} : DownloadResponse(status)
    \/ DownloadFail
    \/ WriteImage
    \/ WriteFail
    \/ ParseReturn
    \/ Save
    \/ Notify

Spec == Init /\ [][Next]_vars

TypeOK ==
    /\ pc \in {"idle", "loop", "fetch", "sleep", "fetched", "item", "download", "write",
               "write_error_body", "save", "notify", "done", "failed"}
    /\ page \in 1..(MaxPages + 1)
    /\ attempt \in 0..(MAX_RETRIES - 1)
    /\ runs \in 0..MaxRuns

\* ------------------------------------------------- notions of the claims
Upto(n) == [i \in 1..n |-> i]

\* the catalog is exhausted at page LastPage + 1: pages 1..LastPage hold items
LastPage ==
    CHOOSE k \in 0..MaxPages :
        /\ \A p \in 1..k : PageAt(p) # <<>>
        /\ PageAt(k + 1) = <<>>

\* the items of pages 1..k in page order, then document order
RECURSIVE Flat(_)
Flat(k) == IF k = 0 THEN <<>> ELSE Flat(k - 1) \o PageAt(k)

Listing == Flat(LastPage)

Parseable(items) == \A i \in 1..Len(items) : PriceOf(items[i]) # None

TitlesOnce(items) ==
    \A i, j \in 1..Len(items) : items[i].title = items[j].title => i = j

\* the cache holds no entry for the title, or the text of another price
Differs(c, title, price) == c[title] = None \/ c[title][1] # FloatStr(price)

\* the records of the items of a list that differ from the cache c
RECURSIVE ChangedRecords(_, _)
ChangedRecords(items, c) ==
    IF items = <<>> THEN <<>>
    ELSE LET it == Head(items)
             rest == ChangedRecords(Tail(items), c)
         IN  IF Differs(c, it.title, PriceOf(it)[1])
             THEN <<Product(it.title, PriceOf(it)[1])>> \o rest
             ELSE rest

EmptyCache == [t \in Titles |-> None]

FetchErrors == {"network", "status"}

\* ---------------------------------------------------------------- claims

\* C1: with no page limit, a run that completes has visited exactly the pages
\* 1..k+1, where pages 1..k hold candidates and page k+1 holds none, whatever
\* the cache held at the start.
C1_StopsOnRawCandidates ==
    (pc = "done" /\ page_limit = None /\ Parseable(Listing))
        => visited = Upto(LastPage + 1)

\* C2: with no page limit, each title occurring once and every fetch and download
\* succeeding, the records returned and persisted are exactly the candidates
\* whose title was absent from the cache, or cached at another price, at the
\* start of the run, on whichever page they are.
C2_ChangeDetectionComplete ==
    (pc = "done" /\ page_limit = None /\ Parseable(Listing) /\ TitlesOnce(Listing))
        => /\ all_products = ChangedRecords(Listing, cache0)
           /\ store = ChangedRecords(Listing, cache0)

\* C3: scrape_with_retry makes at most MAX_RETRIES attempts; it returns the page
\* of the first success when fewer than MAX_RETRIES attempts failed before it,
\* and propagates the failure, of either kind, after exactly MAX_RETRIES failed
\* attempts and not earlier.
C3_RetryCap ==
    /\ gets <= MAX_RETRIES
    /\ pc = "fetched" => (html = PageAt(page) /\ gets = attempt + 1)
    /\ pc = "sleep" => gets < MAX_RETRIES
    /\ (pc = "failed" /\ response.detail \in FetchErrors) => gets = MAX_RETRIES

\* the third attempt succeeded after two failures
C3_Witness == pc = "fetched" /\ gets = MAX_RETRIES

\* C4: when a run is over, completed or aborted, every cache entry it changed
\* holds the price of a record that was persisted to the store.
C4_CacheReflectsPersisted ==
    pc \in {"done", "failed"} =>
        \A t \in Titles :
            cache[t] # cache0[t] =>
                \E r \in everSaved : r[1] = t /\ cache[t] = Some(FloatStr(r[2]))

\* C5: over an unchanged catalog of N distinct titles and an initially empty
\* cache, a first successful run without page limit returns N records, the second
\* run accepts nothing and returns 0 records, and leaves the cache as the first
\* run left it.
C5_Pre ==
    /\ runs = 2
    /\ prev # None
    /\ prev[1].outcome = "done"
    /\ prev[1].limit = None
    /\ prev[1].cacheStart = EmptyCache
    /\ TitlesOnce(Listing)

C5_IdempotentDedup ==
    C5_Pre =>
        /\ prev[1].count = Len(Listing)
        /\ origin = <<>>
        /\ cache = cache0
        /\ pc = "done" => (all_products = <<>> /\ response = Success(0))

\* the second run over a catalog of two titles has completed
C5_Witness == C5_Pre /\ pc = "done" /\ prev[1].count = 2 /\ Len(visited) = 1

\* C6: a re-run without page limit over a catalog whose every title is cached at
\* its current price accepts nothing and fetches exactly the pages 1..k+1.
C6_Pre ==
    /\ page_limit = None
    /\ Parseable(Listing)
    /\ \A i \in 1..Len(Listing) :
          ~Differs(cache0, Listing[i].title, PriceOf(Listing[i])[1])

C6_RerunFetchesEveryPage ==
    (pc = "done" /\ C6_Pre) => (all_products = <<>> /\ visited = Upto(LastPage + 1))

\* C7: with page_limit = L >= 1 and a catalog whose every page holds a candidate,
\* a run that completes has fetched exactly the pages 1..L.
C7_PageLimitExact ==
    (/\ pc = "done"
     /\ page_limit # None
     /\ page_limit[1] \in 1..MaxPages
     /\ \A p \in 1..MaxPages : PageAt(p) # <<>> /\ Parseable(PageAt(p)))
        => visited = Upto(page_limit[1])

\* C8: a candidate is accepted if and only if the cache has no entry for its
\* title or holds another price; on acceptance exactly one record of the candidate
\* is appended to the result and the entry of the title, and no other, becomes the
\* candidate's price; otherwise nothing changes but the position in the page.
C8_Step ==
    (pc = "item" /\ idx <= Len(html) /\ PriceOf(html[idx]) # None) =>
        LET t == html[idx].title
            v == PriceOf(html[idx])[1]
        IN  IF Differs(cache, t, v)
            THEN /\ pc' = "download"
                 /\ products' = Append(products, Product(t, v))
                 /\ get_cached_price(cache', t) = Some(v)
                 /\ \A u \in Titles \ {t} : cache'[u] = cache[u]
            ELSE /\ pc' = "item"
                 /\ products' = products
                 /\ cache' = cache

C8_AcceptanceRule == [][C8_Step]_vars

\* the first candidate of the run was cached at another price and has been accepted
C8_Witness ==
    /\ pc = "download"
    /\ visited = <<1>>
    /\ idx = 1
    /\ cache0[html[1].title] # None
    /\ Len(products) = 1

\* C9: when a run has aborted, the store and the notifications are what they were
\* when the run started and the caller holds a failure, with no record count.
C9_NoPartialPersistence ==
    pc = "failed" =>
        /\ store = store0
        /\ notified = notified0
        /\ response \in [status : {"error"}, code : {500},
                         detail : FetchErrors \cup {"download", "ValueError"}]

\* a download failed on page 2, after records were accepted, over a store that
\* an earlier run had filled
C9_Witness ==
    /\ pc = "failed"
    /\ response.detail = "download"
    /\ page = 2
    /\ all_products # <<>>
    /\ store0 # <<>>

\* C10: after a run has completed, the store holds exactly the records accepted in
\* this run, in page order then document order, and the notification and the
\* response report their number.
OriginBefore(a, b) == a[1] < b[1] \/ (a[1] = b[1] /\ a[2] < b[2])

C10_StoreReplaced ==
    pc = "done" =>
        /\ Len(store) = Len(origin)
        /\ \A i \in 1..Len(origin) :
              LET it == catalog[origin[i][1]][origin[i][2]]
              IN  store[i] = Product(it.title, PriceOf(it)[1])
        /\ \A i, j \in 1..Len(origin) : i < j => OriginBefore(origin[i], origin[j])
        /\ response = Success(Len(store))
        /\ notified = Append(notified0, Len(store))

\* records of two pages replaced the records of an earlier run
C10_Witness ==
    /\ pc = "done"
    /\ store0 # <<>>
    /\ Len(store) = 2
    /\ origin[1][1] # origin[2][1]
    /\ store # store0

\* C11: the parser never fails on malformed input: no run is aborted by an item
\* whose price text is not a number; the item is passed over and the run goes on.
C11_ParserNeverFails ==
    pc = "failed" => response.detail # "ValueError"

\* C12: an image download that fails, by a raised error or by a non-success
\* response, ends the run: no later item or page is processed.
C12_Step ==
    (\/ pc = "download" /\ pc' \notin {"write", "write_error_body"}
     \/ pc = "write_error_body")
        => (pc' = "failed" /\ response' = Failure("download"))

C12_DownloadFailureEndsRun == [][C12_Step]_vars

\* C14: the pages of a run are fetched in the order 1, 2, 3, ... without gap or
\* repetition, starting at 1, and the fetch of the next page is called only when
\* every item of the page before it has been filtered and its download is over.
C14_Order ==
    /\ visited = Upto(Len(visited))
    /\ pc \in {"fetch", "sleep", "fetched", "item", "download", "write",
               "write_error_body"} => (visited # <<>> /\ page = Len(visited))
    /\ pc = "loop" => Len(visited) = page - 1

C14_Step ==
    (Len(visited') > Len(visited) /\ visited # <<>>) =>
        /\ pc = "loop"
        /\ visited' = Append(visited, Len(visited) + 1)
        /\ html = PageAt(Len(visited))
        /\ idx = Len(html) + 1

C14_SequentialPageOrder == []C14_Order /\ [][C14_Step]_vars

\* page 2 is being fetched after both items of page 1 were accepted
C14_Witness ==
    /\ pc = "fetch"
    /\ page = 2
    /\ Len(html) = 2
    /\ Len(origin) = 2

\* C15: a candidate whose price equals the cached one is rejected and the step
\* changes neither the cache nor the accumulated records nor the images written,
\* and issues no download.
C15_Step ==
    (/\ pc = "item"
     /\ idx <= Len(html)
     /\ PriceOf(html[idx]) # None
     /\ ~Differs(cache, html[idx].title, PriceOf(html[idx])[1]))
        => /\ cache' = cache
           /\ products' = products
           /\ all_products' = all_products
           /\ images' = images
           /\ store' = store
           /\ pc' = "item"
           /\ idx' = idx + 1

C15_RejectChangesNothing == [][C15_Step]_vars

\* the second item of a page has been rejected after the first was accepted
C15_Witness ==
    /\ pc = "item"
    /\ idx = 3
    /\ Len(html) = 2
    /\ origin # <<>>
    /\ origin[Len(origin)] = <<page, 1>>
    /\ Len(products) = 1

\* C17: once a candidate has been processed by the filter, accepted or rejected,
\* the cache entry of its title is the candidate's price, and it stays so when the
\* download that follows fails; the cache changes in no other step.
C17_Step ==
    /\ (pc = "item" /\ idx <= Len(html) /\ PriceOf(html[idx]) # None)
          => get_cached_price(cache', html[idx].title) = PriceOf(html[idx])
    /\ pc \in {"download", "write", "write_error_body"}
          => /\ cache' = cache
             /\ get_cached_price(cache, html[idx].title) = PriceOf(html[idx])
    /\ cache' # cache => (pc = "item" /\ pc' = "download")

C17_CacheHoldsLastObserved == [][C17_Step]_vars

\* a download has failed and the cache holds the price of its candidate, which the
\* cache did not hold when the run started
C17_Witness ==
    /\ pc = "failed"
    /\ response.detail = "download"
    /\ get_cached_price(cache, html[idx].title) = PriceOf(html[idx])
    /\ cache0[html[idx].title] # cache[html[idx].title]

\* C20: a page_limit of 0 never ends the loop: as with no limit, the limit check
\* lets every page through and the run ends on a page that yields no product, or
\* on an error.
C20_Step ==
    /\ (pc = "loop" /\ pc' = "save")
          => (page_limit # None /\ page_limit[1] >= 1 /\ page > page_limit[1])
    /\ (pc = "loop" /\ page_limit \in {None, Some(0)}) => pc' = "fetch"

C20_ZeroLimitIsNoLimit ==
    /\ [][C20_Step]_vars
    /\ [](page_limit = Some(0) /\ pc \in {"save", "notify", "done"}
             => (products = <<>> /\ idx = Len(html) + 1 /\ visited # <<>>))

\* a run with page_limit = 0 has gone past page 2 and ended on the empty page 3
C20_Witness ==
    /\ page_limit = Some(0)
    /\ pc = "done"
    /\ Len(visited) = MaxPages + 1

\* ---------------------------------------------------------------------------
\* A notifier that can raise. NotificationStrategy.notify is abstract; the call
\* at the end of scrape_products is inside the try block.

\* an except clause that restores the store it found
NotifyFailRollsBack ==
    /\ pc = "notify"
    /\ pc' = "failed"
    /\ response' = Failure("notify")
    /\ store' = store0
    /\ UNCHANGED <<audit, other, fails, catalog, cache, images, notified, page_limit, page,
                   all_products, attempt, html, idx, products, runs, visited, cache0,
                   store0, notified0, prev, everSaved, gets, origin>>

\* notification.notify raises: except Exception answers with HTTPException(500)
NotifyFail ==
    /\ pc = "notify"
    /\ pc' = "failed"
    /\ response' = Failure("notify")
    /\ UNCHANGED <<audit, other, fails, catalog, cache, store, images, notified, page_limit,
                   page, all_products, attempt, html, idx, products, runs, visited, cache0,
                   store0, notified0, prev, everSaved, gets, origin>>

\* the service is started over an empty price cache
InitCold == Init /\ cache = EmptyCache

NextNotifier == Next \/ NotifyFail

SpecNotifier == InitCold /\ [][NextNotifier]_vars

\* C16: the notifier is called only once the store holds the run's records, and
\* when it raises the caller gets the failure outcome, no notification is
\* recorded, and the store keeps the run's records.
C16_Order ==
    /\ pc = "notify" => store = all_products
    /\ (pc = "failed" /\ response.detail = "notify") =>
           /\ store = all_products
           /\ notified = notified0
           /\ response = Failure("notify")

C16_Step ==
    /\ notified' # notified => (pc = "notify" /\ store = all_products /\ store' = store)
    /\ (pc = "notify" /\ pc' = "failed") => (store' = store /\ response'.status = "error")

C16_NotifyAfterSave == []C16_Order /\ [][C16_Step]_vars

\* the notifier raised after a run replaced a filled store by other records
C16_Witness ==
    /\ pc = "failed"
    /\ response.detail = "notify"
    /\ store # <<>>
    /\ store0 # <<>>
    /\ store # store0

\* ---------------------------------------------------------------------------
\* Failed attempts counted over the whole run, to compare the retry budget of a
\* page with what the run has already spent.

InitRetries ==
    /\ catalog \in Catalogs
    /\ cache = EmptyCache
    /\ store = <<>>
    /\ images = {}
    /\ notified = <<>>
    /\ pc = "idle"
    /\ page_limit = None
    /\ page = 1
    /\ all_products = <<>>
    /\ attempt = 0
    /\ html = <<>>
    /\ idx = 1
    /\ products = <<>>
    /\ response = None
    /\ runs = 0
    /\ visited = <<>>
    /\ cache0 = cache
    /\ store0 = store
    /\ notified0 = notified
    /\ prev = None
    /\ everSaved = {}
    /\ gets = 0
    /\ origin = <<>>
    /\ fails = Some(0)
    /\ other = None
    /\ audit = None

SpecRetries == InitRetries /\ [][Next]_vars

\* C19: the attempt counter of a page counts the requests made for that page
\* only, whatever failed on earlier pages; a fetch fails the run only after
\* MAX_RETRIES requests for the one page; the delay is waited only after a failed
\* attempt that is not the last, is followed by the next attempt, and is waited
\* at most MAX_RETRIES - 1 times per fetch, so a run that has not failed has seen
\* at most MAX_RETRIES - 1 failures for each page it asked for.
C19_Budget ==
    /\ pc = "fetch" => (attempt = gets /\ attempt <= MAX_RETRIES - 1)
    /\ pc = "sleep" => (attempt = gets - 1 /\ attempt < MAX_RETRIES - 1)
    /\ (pc = "failed" /\ response.detail \in FetchErrors) => gets = MAX_RETRIES
    /\ fails # None
    /\ fails[1] <= (MAX_RETRIES - 1) * Len(visited)
                       + (IF pc = "failed" /\ response.detail \in FetchErrors THEN 1 ELSE 0)

C19_Step ==
    /\ (pc = "loop" /\ pc' = "fetch") => attempt' = 0
    /\ (pc # "sleep" /\ pc' = "sleep") =>
           (pc = "fetch" /\ fails'[1] = fails[1] + 1 /\ gets' < MAX_RETRIES)
    /\ pc = "sleep" => (pc' = "fetch" /\ attempt' = attempt + 1)
    /\ (pc = "fetch" /\ pc' = "fetched") => fails' = fails
    /\ (pc = "fetch" /\ pc' = "failed") => gets' = MAX_RETRIES

C19_RetryBudgetPerPage == []C19_Budget /\ [][C19_Step]_vars

\* a run completed although every page it fetched failed MAX_RETRIES - 1 times
C19_Witness ==
    /\ pc = "done"
    /\ Len(visited) >= 2
    /\ fails = Some((MAX_RETRIES - 1) * Len(visited))

\* ---------------------------------------------------------------------------
\* Progress. The event loop resumes the coroutine when the awaited request, delay
\* or write has returned or raised, and runs it up to its next await; nothing
\* obliges a client to send a request.

\* the steps of a request in progress
Step ==
    \/ LimitBreak
    \/ FetchCall
    \/ FetchOk
    \/ \E kind \in {"network", "status"} : FetchFail(kind)
    \/ Sleep
    \/ ParseBegin
    \/ ItemRaise
    \/ ItemAccept
    \/ ItemReject
    \/ \E status \in {"2xx", "non2xx"} : DownloadResponse(status)
    \/ DownloadFail
    \/ WriteImage
    \/ WriteFail
    \/ ParseReturn
    \/ Save
    \/ Notify

SpecFair == InitCold /\ [][Next]_vars /\ WF_vars(Step)

Running == pc \notin {"idle", "done", "failed"}

\* C18: every run that has started ends, in done or in failed. (Every catalog of
\* the model has a page without candidates: the page after its last one.)
C18_EveryRunTerminates ==
    \A n \in 1..MaxRuns : (runs = n /\ Running) ~> (runs = n /\ ~Running)

\* the second run, without a limit, walked the whole catalog and ended on the
\* page without candidates
C18_Witness ==
    /\ pc = "done"
    /\ runs = MaxRuns
    /\ page_limit = None
    /\ Len(visited) = MaxPages + 1
    /\ Len(all_products) >= MaxPages

\* ---------------------------------------------------------------------------
\* Two requests in one event loop. A coroutine runs from one await to the next;
\* the awaits that can suspend it are client.get in scrape_with_retry,
\* asyncio.sleep, and client.get of the image. The Redis calls are synchronous.

Suspended(p) == p \in {"fetch", "sleep", "download"}

\* the variables of one request
Locals ==
    [pc |-> pc, page_limit |-> page_limit, page |-> page, all_products |-> all_products,
     attempt |-> attempt, html |-> html, idx |-> idx, products |-> products,
     response |-> response, visited |-> visited, cache0 |-> cache0, store0 |-> store0,
     notified0 |-> notified0, gets |-> gets, origin |-> origin]

\* a second POST /scrape is taken up while the first is suspended
Arrive(limit) ==
    /\ other = None
    /\ Suspended(pc)
    /\ runs < MaxRuns
    /\ other' = Some(Locals)
    /\ page_limit' = limit
    /\ all_products' = <<>>
    /\ page' = 1
    /\ pc' = "loop"
    /\ response' = None
    /\ runs' = runs + 1
    /\ visited' = <<>>
    /\ cache0' = cache
    /\ store0' = store
    /\ notified0' = notified
    /\ attempt' = 0
    /\ html' = <<>>
    /\ idx' = 1
    /\ products' = <<>>
    /\ gets' = 0
    /\ origin' = <<>>
    /\ audit' = [audit EXCEPT !.read = <<>>, !.readOther = audit.read]
    /\ UNCHANGED <<catalog, cache, store, images, notified, prev, everSaved, fails>>

\* the running request reaches an await, or returns, and the event loop resumes
\* the other one
Switch ==
    /\ other # None
    /\ other[1].pc \notin {"done", "failed"}
    /\ Suspended(pc) \/ pc \in {"done", "failed"}
    /\ other' = Some(Locals)
    /\ pc' = other[1].pc
    /\ page_limit' = other[1].page_limit
    /\ page' = other[1].page
    /\ all_products' = other[1].all_products
    /\ attempt' = other[1].attempt
    /\ html' = other[1].html
    /\ idx' = other[1].idx
    /\ products' = other[1].products
    /\ response' = other[1].response
    /\ visited' = other[1].visited
    /\ cache0' = other[1].cache0
    /\ store0' = other[1].store0
    /\ notified0' = other[1].notified0
    /\ gets' = other[1].gets
    /\ origin' = other[1].origin
    /\ audit' = [audit EXCEPT !.read = audit.readOther, !.readOther = audit.read]
    /\ UNCHANGED <<catalog, cache, store, images, notified, runs, prev, everSaved, fails>>

\* the catalogs the two requests crawl: any first page, later pages of one item
\* at most
ConcurrentCatalogs == {c \in Catalogs : \A p \in 2..MaxPages : Len(c[p]) <= 1}

InitConcurrent ==
    /\ catalog \in ConcurrentCatalogs
    /\ cache = EmptyCache
    /\ store = <<>>
    /\ images = {}
    /\ notified = <<>>
    /\ pc = "idle"
    /\ page_limit = None
    /\ page = 1
    /\ all_products = <<>>
    /\ attempt = 0
    /\ html = <<>>
    /\ idx = 1
    /\ products = <<>>
    /\ response = None
    /\ runs = 0
    /\ visited = <<>>
    /\ cache0 = cache
    /\ store0 = store
    /\ notified0 = notified
    /\ prev = None
    /\ everSaved = {}
    /\ gets = 0
    /\ origin = <<>>
    /\ fails = None
    /\ other = None
    /\ audit = [writes |-> [t \in Titles |-> 0], read |-> <<>>, readOther |-> <<>>]

NextConcurrent ==
    \/ Next
    \/ \E limit \in Limits : Arrive(limit)
    \/ Switch

SpecConcurrent == InitConcurrent /\ [][NextConcurrent]_vars

\* the title of the item a lookup stamp <<page, position, writes>> is about
TitleAt(stamp) == PageAt(stamp[1])[stamp[2]].title

\* both requests accepted the same item after looking it up in the same entry,
\* with no write of the entry between the two lookups
Race ==
    \E i \in DOMAIN audit.read : \E j \in DOMAIN audit.readOther :
        audit.read[i] = audit.readOther[j]

\* the running request is about to look up the item whose image the suspended
\* request is downloading
SameCandidate ==
    /\ other # None
    /\ other[1].pc = "download"
    /\ pc = "item"
    /\ page = other[1].page
    /\ idx = other[1].idx
    /\ idx <= Len(html)

\* C13 (as claimed): the lookup and the update are separated by the image
\* download, so a request that looks an item up while another request is
\* suspended in the download of that item reads what the other read and accepts
\* the item as well.
C13_Claimed == SameCandidate => pc' = "download"

C13_Atomic ==
    /\ ~Race
    /\ (Suspended(pc) \/ pc \in {"done", "failed"}) =>
           \A i \in DOMAIN audit.read : audit.writes[TitleAt(audit.read[i])] > audit.read[i][3]
    /\ \A j \in DOMAIN audit.readOther :
           audit.writes[TitleAt(audit.readOther[j])] > audit.readOther[j][3]

\* while the entry is as the suspended request wrote it, the running request
\* finds the item's price there and passes it over
C13_Step ==
    (/\ SameCandidate
     /\ audit.readOther # <<>>
     /\ audit.writes[html[idx].title] = audit.readOther[Len(audit.readOther)][3] + 1)
        => (pc' = "item" /\ idx' = idx + 1 /\ cache' = cache /\ products' = products)

====
